---- MODULE Spec2Model ----
(***************************************************************************)
(* A model of crapremoval.py: the ScannerAndCleaner object (scan, cleaner, *)
(* report), the three files it persists (watchdirs.json, crapremoval_timer,*)
(* report.log) and the part of the filesystem it lists, measures and       *)
(* deletes from.                                                           *)
(*                                                                         *)
(* Path strings are sequences of one-character strings, so that the        *)
(* substring test of the ignore filter is computed.  Timestamps are whole  *)
(* seconds.  An uncaught Python exception ends the process: pc = "crashed".*)
(***************************************************************************)
EXTENDS Integers, Sequences, FiniteSets, TLC

VARIABLES
    fs,                     \* the filesystem: directory path -> its node
    now,                    \* datetime.now() as a timestamp
    hashseed,               \* the iteration order of this process's str sets
    watchdirs_file,         \* DATA_FILES_PATH/watchdirs.json
    timer_file,             \* DATA_FILES_PATH/crapremoval_timer
    report_file,            \* DATA_FILES_PATH/report.log, a sequence of sections
    watch_dirs,             \* self.watch_dirs
    ntopfiles,              \* self.ntopfiles
    dirstoclean,            \* self.dirstoclean
    clean_each_x_launch,    \* the argument main passes to cleaner
    watchdirs_content_Path, \* self.watchdirs_content_Path
    watchdirs_content_set,  \* self.watchdirs_content_set
    watchdirs_content_list, \* self.watchdirs_content_list
    notify_report,          \* self.notify_report, a sequence of pieces
    pc,                     \* where the process is in __main__
    rm_running,             \* paths of the rm processes Popen started, still running
    launches,               \* history: how many times the program was started
    cleaner_calls,          \* history: how many times cleaner was called
    cleaned_calls,          \* history: the calls of cleaner that passed the throttle
    scanned_file,           \* history: watchdirs.json as the last scan found it
    last_clean,             \* history: what the last call of cleaner did
    stat_result,            \* history: a direct call of _add_stat_properties
    round_trip              \* history: a snapshot written as text and read back

vars == << fs, now, hashseed, watchdirs_file, timer_file, report_file, watch_dirs,
           ntopfiles, dirstoclean, clean_each_x_launch, watchdirs_content_Path,
           watchdirs_content_set, watchdirs_content_list, notify_report, pc,
           rm_running, launches, cleaner_calls, cleaned_calls, scanned_file,
           last_clean, stat_result, round_trip >>

----------------------------------------------------------------------------
(* Sequences *)

Range(s) == { s[i] : i \in 1..Len(s) }

RECURSIVE SumSeq(_)
SumSeq(s) == IF s = << >> THEN 0 ELSE Head(s) + SumSeq(Tail(s))

RECURSIVE Reverse(_)
Reverse(s) == IF s = << >> THEN << >> ELSE Append(Reverse(Tail(s)), Head(s))

\* s from its (n+1)-th element on: the Python slice s[n:]
SliceFrom(s, n) == IF n >= Len(s) THEN << >> ELSE SubSeq(s, n + 1, Len(s))

\* Python's `sub in text` on str
IsSubstring(sub, text) ==
    \E i \in 0..(Len(text) - Len(sub)) :
        \A j \in 1..Len(sub) : text[i + j] = sub[j]

----------------------------------------------------------------------------
(* The filesystem.  fs maps the path of a directory the program is         *)
(* configured with to [exists, entries]; entries are its first-level       *)
(* children in the order glob('*') yields them.  A child is                *)
(*   [path, kind, size, mtimes]                                            *)
(* kind "file": size is st_size and mtimes = <<st_mtime>>;                 *)
(* kind "dir" : size is what `du -shb` prints for it and mtimes are the    *)
(*              modification times of the files `find -type f` prints,     *)
(*              in find's order;                                            *)
(* kind "gone": the child was listed and vanished before it was probed.    *)

NoNode == [kind |-> "gone", size |-> 0, mtimes |-> << >>]

ChildPath(dir, name) == dir \o << "/" >> \o name

\* every child of every directory
AllEntries(f) == UNION { Range(f[d].entries) : d \in DOMAIN f }

\* what `du -shb dir` prints for a configured directory: its content in bytes
DuOfDir(f, d) == SumSeq([ i \in 1..Len(f[d].entries) |-> f[d].entries[i].size ])

\* the node a path names: a configured directory, a child, or nothing
Stat(f, p) ==
    IF p \in DOMAIN f
    THEN IF f[p].exists
         THEN [kind |-> "dir", size |-> DuOfDir(f, p), mtimes |-> << >>]
         ELSE NoNode
    ELSE IF \E e \in AllEntries(f) : e.path = p
         THEN LET e == CHOOSE x \in AllEntries(f) : x.path = p
              IN  [kind |-> e.kind, size |-> e.size, mtimes |-> e.mtimes]
         ELSE NoNode

\* Path.glob('*'): the first-level children; nothing for a missing directory
Glob(f, d) ==
    IF d \in DOMAIN f /\ f[d].exists
    THEN [ i \in 1..Len(f[d].entries) |-> f[d].entries[i].path ]
    ELSE << >>

\* Path.is_file()
IsFile(f, p) == Stat(f, p).kind = "file"

\* rm -rf of every path in gone: the children are removed (a configured
\* directory itself is never passed to rm)
Remove(f, gone) ==
    [ d \in DOMAIN f |->
        [ f[d] EXCEPT !.entries = SelectSeq(f[d].entries, LAMBDA e : e.path \notin gone) ] ]

----------------------------------------------------------------------------
(* _add_stat_properties *)

\* list.sort(key=elem[1], reverse=True/False) on (path, value) tuples:
\* stable, equal values keep their order whatever reverse is
RECURSIVE InsertByValue(_, _, _)
InsertByValue(sorted, t, reversed) ==
    IF sorted = << >> THEN << t >>
    ELSE IF (IF reversed THEN Head(sorted)[2] >= t[2] ELSE Head(sorted)[2] <= t[2])
         THEN << Head(sorted) >> \o InsertByValue(Tail(sorted), t, reversed)
         ELSE << t >> \o sorted

RECURSIVE SortByValue(_, _)
SortByValue(s, reversed) ==
    IF s = << >> THEN << >>
    ELSE InsertByValue(SortByValue(SubSeq(s, 1, Len(s) - 1), reversed), s[Len(s)], reversed)

\* the '' that split('\n') leaves after find's last line; it sorts below
\* every "<seconds>.<fraction>+ <path>" line
EmptyLine == -1

\* all_dir_files.sort(reverse=True) of find's lines: a line is modelled by
\* its whole seconds (lines of one length compare as their timestamps)
RECURSIVE InsertLine(_, _)
InsertLine(sorted, t) ==
    IF sorted = << >> THEN << t >>
    ELSE IF Head(sorted) >= t
         THEN << Head(sorted) >> \o InsertLine(Tail(sorted), t)
         ELSE << t >> \o sorted

RECURSIVE SortLinesReverse(_)
SortLinesReverse(s) ==
    IF s = << >> THEN << >>
    ELSE InsertLine(SortLinesReverse(Tail(s)), Head(s))

\* lines 176-189: the age of a directory.  [out, value]: out is "pair" (a
\* tuple is appended), "skip" (nothing is) or "ValueError" (int('') raises)
SecondLine(sorted) ==
    IF sorted[2] = EmptyLine
    THEN [out |-> "ValueError", value |-> 0]
    ELSE [out |-> "pair", value |-> sorted[2]]

\* a directory without files ranked as the oldest
NewestOf_EmptyIsOldest(all_dir_files) ==
    IF Len(all_dir_files) > 1
    THEN SecondLine(SortLinesReverse(all_dir_files))
    ELSE [out |-> "pair", value |-> 0]

NewestOf(all_dir_files) ==
    IF Len(all_dir_files) > 1
    THEN SecondLine(SortLinesReverse(all_dir_files))
    ELSE [out |-> "skip", value |-> 0]

DirAge(node) == NewestOf(node.mtimes \o << EmptyLine >>)

\* lines 167-194: one turn of the loop over filepaths
ProbeNode(node, stattype) ==
    IF node.kind = "file"
    THEN [out |-> "pair",
          value |-> IF stattype = "size" THEN node.size ELSE node.mtimes[1]]
    ELSE IF node.kind = "gone"
         \* du and find exit non-zero: CalledProcessError, caught
         THEN [out |-> "skip", value |-> 0]
         ELSE IF stattype = "size"
              THEN [out |-> "pair", value |-> node.size]
              ELSE DirAge(node)

ProbeOne(f, p, stattype) == ProbeNode(Stat(f, p), stattype)

\* result.append((str(filepath), value)), or nothing
Appended(filepath, r) ==
    IF r.out = "pair" THEN << << filepath, r.value >> >> ELSE << >>

RECURSIVE ProbeAll(_, _, _)
ProbeAll(f, filepaths, stattype) ==
    IF filepaths = << >> THEN << >>
    ELSE Appended(Head(filepaths), ProbeOne(f, Head(filepaths), stattype))
         \o ProbeAll(f, Tail(filepaths), stattype)

\* [raised, result]: raised when a ValueError leaves the function, else the
\* returned list of (str(path), value)
SortedResult(result, sort, sort_reversed) ==
    [raised |-> FALSE,
     result |-> IF sort THEN SortByValue(result, sort_reversed) ELSE result]

add_stat_properties(f, filepaths, stattype, sort, sort_reversed) ==
    IF \E i \in 1..Len(filepaths) : ProbeOne(f, filepaths[i], stattype).out = "ValueError"
    THEN [raised |-> TRUE, result |-> << >>]
    ELSE SortedResult(ProbeAll(f, filepaths, stattype), sort, sort_reversed)

\* _bytes_to_mib: f'{(value / 1048576):.3f} MiB' as [neg, milli], the sign
\* printed and the thousandths of a MiB, rounded half to even as format does
MiB == 1048576

bytes_to_mib(value) ==
    LET a  == IF value < 0 THEN 0 - value ELSE value
        q  == (a * 1000) \div MiB
        r  == (a * 1000) % MiB
        up == 2 * r > MiB \/ (2 * r = MiB /\ q % 2 = 1)
    IN  [neg |-> value < 0, milli |-> IF up THEN q + 1 ELSE q]

----------------------------------------------------------------------------
(* The throttle counter file: [exists, text], text a sequence of characters *)

Digits == << "0", "1", "2", "3", "4", "5", "6", "7", "8", "9" >>

\* characters str.isdigit() accepts and int() rejects (superscript digits)
SuperscriptDigits == { "²" }

DigitValue(c) == (CHOOSE i \in 1..10 : Digits[i] = c) - 1

\* str.isdigit()
isdigit(text) ==
    /\ Len(text) > 0
    /\ \A i \in 1..Len(text) : text[i] \in Range(Digits) \cup SuperscriptDigits

\* whether int(text) raises ValueError, for a text isdigit() accepted
IntRaises(text) == \E i \in 1..Len(text) : text[i] \in SuperscriptDigits

\* int(text) for a text of decimal digits
RECURSIVE IntOfStr(_)
IntOfStr(text) ==
    IF text = << >> THEN 0
    ELSE 10 * IntOfStr(SubSeq(text, 1, Len(text) - 1)) + DigitValue(text[Len(text)])

\* str(n)
RECURSIVE StrOfNat(_)
StrOfNat(n) ==
    IF n < 10 THEN << Digits[n + 1] >>
    ELSE Append(StrOfNat(n \div 10), Digits[(n % 10) + 1])

StrOfInt(n) == IF n < 0 THEN << "-" >> \o StrOfNat(0 - n) ELSE StrOfNat(n)

----------------------------------------------------------------------------
(* cleaner: what one One_path_item selects.  An item is                    *)
(*   [path, type_to_del, num_to_keep, remove_older, ignore]                *)
(* remove_older is << >> for None and <<days>> for a number.               *)

SecondsPerDay == 86400

\* a first filter that lets directories through
TypeFilter_Everything(f, item) == Glob(f, item.path)

\* lines 370-378: the first filter.  The elements are Path objects
TypeFilter(f, item) ==
    IF item.type_to_del = "f"
    THEN SelectSeq(Glob(f, item.path), LAMBDA file : IsFile(f, file))
    ELSE Glob(f, item.path)

\* lines 393-400: how many leading elements of the ranking are kept
RECURSIVE KeepCounter(_, _)
KeepCounter(ranked, trashold) ==
    IF ranked = << >> THEN 0
    ELSE IF Head(ranked)[2] < trashold THEN 0
         ELSE 1 + KeepCounter(Tail(ranked), trashold)

\* a second filter that applies remove_older whenever it is set
RetentionSlice_AgeFirst(item, aged, nowv) ==
    IF aged.raised THEN [raised |-> TRUE, tuples |-> << >>]
    ELSE IF item.remove_older /= << >>
         THEN [raised |-> FALSE,
               tuples |-> SliceFrom(aged.result,
                            KeepCounter(aged.result,
                                        nowv - item.remove_older[1] * SecondsPerDay))]
         ELSE [raised |-> FALSE,
               tuples |-> IF Len(aged.result) > item.num_to_keep
                          THEN SliceFrom(aged.result, item.num_to_keep)
                          ELSE << >>]

\* lines 381-400: the second filter.  [raised, tuples]: the (path, age)
\* tuples left for removal
RetentionSlice(item, aged, nowv) ==
    IF aged.raised THEN [raised |-> TRUE, tuples |-> << >>]
    ELSE IF item.num_to_keep > 0
         THEN [raised |-> FALSE,
               tuples |-> IF Len(aged.result) > item.num_to_keep
                          THEN SliceFrom(aged.result, item.num_to_keep)
                          ELSE << >>]
         ELSE [raised |-> FALSE,
               tuples |-> SliceFrom(aged.result,
                            KeepCounter(aged.result,
                                        nowv - item.remove_older[1] * SecondsPerDay))]

RetentionFilter(f, item, files_to_remove, nowv) ==
    RetentionSlice(item, add_stat_properties(f, files_to_remove, "age", TRUE, TRUE), nowv)

\* line 406: dict(files_to_remove).keys(), the paths in order of first occurrence
RECURSIVE DictKeys(_)
DictKeys(tuples) ==
    IF tuples = << >> THEN << >>
    ELSE LET rest == DictKeys(SubSeq(tuples, 1, Len(tuples) - 1))
             k    == tuples[Len(tuples)][1]
         IN  IF k \in Range(rest) THEN rest ELSE Append(rest, k)

\* line 409: a file passes when no ignore substring occurs in its path
NotIgnored(item, file) ==
    ~ \E i \in 1..Len(item.ignore) : IsSubstring(item.ignore[i], file)

\* lines 402-410: the third filter.  `substring in file` raises TypeError
\* when file is a Path object, which it is unless the second filter ran
IgnoreFilter(item, files_to_remove, are_str) ==
    IF files_to_remove /= << >> /\ item.ignore /= << >> /\ ~ are_str
    THEN [raised |-> TRUE, final |-> << >>]
    ELSE [raised |-> FALSE,
          final |-> SelectSeq(files_to_remove, LAMBDA file : NotIgnored(item, file))]

\* lines 369-411 for one item: [raised, final], final the list given to
\* _erase_subs
AfterRetention(item, kept) ==
    IF kept.raised THEN [raised |-> TRUE, final |-> << >>]
    ELSE IgnoreFilter(item, DictKeys(kept.tuples), TRUE)

FilterCandidates(f, item, first, nowv) ==
    IF item.num_to_keep > 0 \/ item.remove_older /= << >>
    THEN AfterRetention(item, RetentionFilter(f, item, first, nowv))
    ELSE IgnoreFilter(item, first, FALSE)

SelectForItem(f, item, nowv) == FilterCandidates(f, item, TypeFilter(f, item), nowv)

\* lines 368-411: the loop over self.dirstoclean.  [raised, finals]: finals
\* holds the list erased for each item the loop finished with
LoopStep(one, rest) ==
    [raised |-> rest.raised, finals |-> << one.final >> \o rest.finals]

LoopRaised == [raised |-> TRUE, finals |-> << >>]

RECURSIVE CleanLoop(_, _, _)
CleanLoopFrom(f, items, nowv, one) ==
    IF one.raised THEN LoopRaised
    ELSE LoopStep(one, CleanLoop(f, Tail(items), nowv))

CleanLoop(f, items, nowv) ==
    IF items = << >> THEN [raised |-> FALSE, finals |-> << >>]
    ELSE CleanLoopFrom(f, items, nowv, SelectForItem(f, Head(items), nowv))

\* the paths of the targets, [ x.path for x in self.dirstoclean ]
TargetPaths(items) == [ i \in 1..Len(items) |-> items[i].path ]

\* new_sizes.get(k): [found, value], the value of the last tuple for k
SizeGet(sizes, k) ==
    IF \E i \in 1..Len(sizes) : sizes[i][1] = k
    THEN [found |-> TRUE,
          value |-> sizes[CHOOSE i \in 1..Len(sizes) :
                            /\ sizes[i][1] = k
                            /\ \A j \in (i + 1)..Len(sizes) : sizes[j][1] /= k][2]]
    ELSE [found |-> FALSE, value |-> 0]

\* a path that is gone counted as one of size 0
PositionOf_GoneAsEmpty(new_sizes, saved) ==
    [path |-> saved[1], dash |-> FALSE,
     diff |-> SizeGet(new_sizes, saved[1]).value - saved[2]]

\* lines 339 and 343: the entry of one saved size in the detailed result,
\* [path, dash, diff]; dash stands for the '-' of a path that is gone
PositionOf(new_sizes, saved) ==
    LET item == SizeGet(new_sizes, saved[1])
    IN  IF item.found
        THEN [path |-> saved[1], dash |-> FALSE, diff |-> item.value - saved[2]]
        ELSE [path |-> saved[1], dash |-> TRUE, diff |-> 0]

\* _count_erased_size: [total, all_positions]
ErasedTotal(result) ==
    [total         |-> SumSeq([ i \in 1..Len(result) |-> result[i].diff ]),
     all_positions |-> result]

\* an entry for every path measured after the cleaning
ErasedPositions_OfNewSizes(new_sizes, saved_sizes) ==
    ErasedTotal([ i \in 1..Len(new_sizes) |->
                    [path |-> new_sizes[i][1], dash |-> FALSE,
                     diff |-> new_sizes[i][2] - SizeGet(saved_sizes, new_sizes[i][1]).value] ])

\* lines 335-344: the loop over saved_sizes
ErasedPositions(new_sizes, saved_sizes) ==
    ErasedTotal([ i \in 1..Len(saved_sizes) |-> PositionOf(new_sizes, saved_sizes[i]) ])

count_erased_size(f, items, saved_sizes) ==
    ErasedPositions(add_stat_properties(f, TargetPaths(items), "size", FALSE, TRUE).result,
                    saved_sizes)

----------------------------------------------------------------------------
(* scan.  watchdirs.json is [state, top, obj]:                             *)
(*   state "absent"  : no such file;                                       *)
(*   state "garbage" : text json.loads rejects (JSONDecodeError);          *)
(*   state "json"    : text that parses; top is the type of the value      *)
(*     ("obj", "list", "str", "num", "null") and, for "obj", obj maps each *)
(*     key to [t, items]: a "list" of strings, a "str" (items are its      *)
(*     characters, which is what iterating it yields), a "num" or a "null".*)

NoObj == [ k \in {} |-> [t |-> "null", items |-> << >>] ]

AbsentFile  == [state |-> "absent",  top |-> "null", obj |-> NoObj]
GarbageFile == [state |-> "garbage", top |-> "null", obj |-> NoObj]
JsonFile(top, obj) == [state |-> "json", top |-> top, obj |-> obj]

JList(items) == [t |-> "list", items |-> items]

\* a list that lacks one member of the set
ListOfSet_LosesOne(S, basis, seed) ==
    SubSeq(SelectSeq(basis, LAMBDA x : x \in S), 2, Len(SelectSeq(basis, LAMBDA x : x \in S)))

\* list(a_set): the members of a set of path strings in the order this
\* process iterates it; basis lists the members once each
ListOfSet(S, basis, seed) ==
    LET members == SelectSeq(basis, LAMBDA x : x \in S)
    IN  IF seed = 0 THEN members ELSE Reverse(members)

\* str(item) for item in self.watch_dirs: the keys of the three dicts
WatchKeys(dirs) == Range(dirs)

\* lines 118-128 of __init__
InitContentPath(f, dirs) == [ key \in WatchKeys(dirs) |-> Glob(f, key) ]
InitContentSet(f, dirs)  == [ key \in WatchKeys(dirs) |-> Range(Glob(f, key)) ]
InitContentList(f, dirs, seed) ==
    [ key \in WatchKeys(dirs) |-> ListOfSet(Range(Glob(f, key)), Glob(f, key), seed) ]

\* a snapshot that lists nothing for any directory
write_watchdirs_Nothing(content_list) ==
    JsonFile("obj", [ key \in DOMAIN content_list |-> JList(<< >>) ])

\* _write_watchdirs: json.dumps(self.watchdirs_content_list)
write_watchdirs(content_list) ==
    JsonFile("obj", [ key \in DOMAIN content_list |-> JList(content_list[key]) ])

\* line 268, watchdirs_file_content[key]: "value", "KeyError" (caught) or
\* "TypeError" (a value that takes no str index)
Subscript(file, key) ==
    IF file.top = "obj"
    THEN IF key \in DOMAIN file.obj THEN "value" ELSE "KeyError"
    ELSE "TypeError"

\* line 268, set.difference(v): a TypeError unless v can be iterated
Iterable(v) == v.t \in { "list", "str" }

\* whether the loop of lines 263-271 raises TypeError
DiffRaises(file, content_set) ==
    \E key \in DOMAIN content_set :
        \/ Subscript(file, key) = "TypeError"
        \/ Subscript(file, key) = "value" /\ ~ Iterable(file.obj[key])

\* the symmetric difference in place of set.difference
CurrentContent_Symmetric(file, content_set, key) ==
    (content_set[key] \ Range(file.obj[key].items))
    \cup (Range(file.obj[key].items) \ content_set[key])

\* line 268: current_content
CurrentContent(file, content_set, key) == content_set[key] \ Range(file.obj[key].items)

\* a new directory reported with the list of its children
NewContent_ListsNewDir(file, content_set, content_Path, seed) ==
    [ key \in { k \in DOMAIN content_set :
                  \/ Subscript(file, k) = "KeyError"
                  \/ CurrentContent(file, content_set, k) /= {} } |->
        IF Subscript(file, key) = "KeyError"
        THEN [newdir |-> TRUE,
              items  |-> ListOfSet(content_set[key], content_Path[key], seed)]
        ELSE [newdir |-> FALSE,
              items  |-> ListOfSet(CurrentContent(file, content_set, key),
                                   content_Path[key], seed)] ]

\* lines 260-271: new_content, key -> [newdir, items]; newdir stands for the
\* 'Seems like a new directory...' string stored in place of a list
NewContent(file, content_set, content_Path, seed) ==
    LET reported == { key \in DOMAIN content_set :
                        \/ Subscript(file, key) = "KeyError"
                        \/ CurrentContent(file, content_set, key) /= {} }
    IN  [ key \in reported |->
            IF Subscript(file, key) = "KeyError"
            THEN [newdir |-> TRUE, items |-> << >>]
            ELSE [newdir |-> FALSE,
                  items  |-> ListOfSet(CurrentContent(file, content_set, key),
                                       content_Path[key], seed)] ]

NoContent == [ k \in {} |-> [newdir |-> FALSE, items |-> << >>] ]

\* lines 255-288: [raised, msg, new_content].  msg names the text of
\* report_scan: "found", "none", "corrupted" or "notfound"
CompareSnapshot(file, content_set, content_Path, seed) ==
    IF file.state = "absent"
    THEN [raised |-> FALSE, msg |-> "notfound", new_content |-> NoContent]
    ELSE IF file.state = "garbage"
    THEN [raised |-> FALSE, msg |-> "corrupted", new_content |-> NoContent]
    ELSE IF DiffRaises(file, content_set)
    THEN [raised |-> TRUE, msg |-> "none", new_content |-> NoContent]
    ELSE LET new_content == NewContent(file, content_set, content_Path, seed)
         IN  [raised |-> FALSE,
              msg |-> IF DOMAIN new_content /= {} THEN "found" ELSE "none",
              new_content |-> new_content]

\* lines 291-294: all_content, the sorted list of each watched directory
\* after that of the one before it
RECURSIVE AllContent(_, _, _)
AllContent(f, dirs, content_Path) ==
    IF dirs = << >> THEN << >>
    ELSE add_stat_properties(f, content_Path[Head(dirs)], "size", TRUE, TRUE).result
         \o AllContent(f, Tail(dirs), content_Path)

\* lines 298-308: the rows of top_size_things, [path, mib]
TopSizeThings(all_content, n) ==
    LET taken == IF n <= 0 THEN 0 ELSE IF n < Len(all_content) THEN n ELSE Len(all_content)
    IN  [ i \in 1..taken |->
            [path |-> all_content[i][1], mib |-> bytes_to_mib(all_content[i][2])] ]

\* a section of report.log
ScanSection(msg, new_content, top, n) ==
    [kind |-> "scan", msg |-> msg, new_content |-> new_content, top |-> top,
     ntop |-> n, positions |-> << >>, total |-> bytes_to_mib(0)]

\* lines 414-426: the rows of report_size_str and the total
CleanSection(report) ==
    [kind |-> "clean", msg |-> "clean", new_content |-> NoContent, top |-> << >>,
     ntop |-> 0,
     positions |-> [ i \in 1..Len(report.all_positions) |->
                       [path |-> report.all_positions[i].path,
                        dash |-> report.all_positions[i].dash,
                        mib  |-> bytes_to_mib(report.all_positions[i].diff)] ],
     total |-> bytes_to_mib(report.total)]

----------------------------------------------------------------------------
(* watchdirs.json as text.  A text is a sequence of characters; json.dumps *)
(* (ensure_ascii, separators ', ' and ': ') and json.loads are modelled on *)
(* mappings from strings to lists of strings, the values _write_watchdirs  *)
(* writes.                                                                 *)

Quote     == "\""
Backslash == "\\"
Newline   == "\n"
EAcute    == "é"

\* the \uXXXX escape of the one character beyond ASCII
EAcuteHex == << "0", "0", "e", "9" >>

\* py_encode_basestring_ascii on one character
EscapeChar_Raw(c) == << c >>

EscapeChar(c) ==
    IF c = Quote THEN << Backslash, Quote >>
    ELSE IF c = Backslash THEN << Backslash, Backslash >>
    ELSE IF c = Newline THEN << Backslash, "n" >>
    ELSE IF c = EAcute THEN << Backslash, "u" >> \o EAcuteHex
    ELSE << c >>

RECURSIVE EscapeAll(_)
EscapeAll(str) ==
    IF str = << >> THEN << >> ELSE EscapeChar(Head(str)) \o EscapeAll(Tail(str))

DumpStr(str) == << Quote >> \o EscapeAll(str) \o << Quote >>

RECURSIVE DumpItems(_)
DumpItems(items) ==
    IF items = << >> THEN << >>
    ELSE IF Len(items) = 1 THEN DumpStr(items[1])
    ELSE DumpStr(Head(items)) \o << ",", " " >> \o DumpItems(Tail(items))

DumpList(items) == << "[" >> \o DumpItems(items) \o << "]" >>

RECURSIVE DumpMembers(_, _)
DumpMembers(keys, dict) ==
    IF keys = << >> THEN << >>
    ELSE DumpStr(Head(keys)) \o << ":", " " >> \o DumpList(dict[Head(keys)])
         \o (IF Len(keys) = 1 THEN << >> ELSE << ",", " " >>)
         \o DumpMembers(Tail(keys), dict)

\* the keys of a dict filled in the order of dirs, each once
RECURSIVE KeyOrder(_)
KeyOrder(dirs) ==
    IF dirs = << >> THEN << >>
    ELSE IF dirs[Len(dirs)] \in Range(SubSeq(dirs, 1, Len(dirs) - 1))
         THEN KeyOrder(SubSeq(dirs, 1, Len(dirs) - 1))
         ELSE Append(KeyOrder(SubSeq(dirs, 1, Len(dirs) - 1)), dirs[Len(dirs)])

\* json.dumps(self.watchdirs_content_list), the keys in insertion order
json_dumps(keys, dict) == << "{" >> \o DumpMembers(keys, dict) \o << "}" >>

\* what a scanner returns: whether it matched, the position after the
\* match, and the value read
Failed == [ok |-> FALSE, next |-> 0, val |-> << >>]
Matched(next, val) == [ok |-> TRUE, next |-> next, val |-> val]

\* the position of the first character from i on that is not a blank
RECURSIVE SkipBlanks(_, _)
SkipBlanks(t, i) ==
    IF i <= Len(t) /\ t[i] \in { " ", "\t" } THEN SkipBlanks(t, i + 1) ELSE i

At(t, i, c) == i <= Len(t) /\ t[i] = c

\* the characters of a string whose opening quote was read, up to its
\* closing quote (json.decoder.py_scanstring, strict)
RECURSIVE ScanChars(_, _, _)
ScanEscape(t, i, acc) ==
    IF i > Len(t) THEN Failed
    ELSE IF t[i] \in { Quote, Backslash, "/" } THEN ScanChars(t, i + 1, Append(acc, t[i]))
    ELSE IF t[i] = "n" THEN ScanChars(t, i + 1, Append(acc, Newline))
    ELSE IF t[i] = "u" /\ i + 4 <= Len(t) /\ SubSeq(t, i + 1, i + 4) = EAcuteHex
         THEN ScanChars(t, i + 5, Append(acc, EAcute))
    ELSE Failed

ScanChars(t, i, acc) ==
    IF i > Len(t) THEN Failed
    ELSE IF t[i] = Quote THEN Matched(i + 1, acc)
    ELSE IF t[i] = Backslash THEN ScanEscape(t, i + 1, acc)
    ELSE IF t[i] = Newline THEN Failed
    ELSE ScanChars(t, i + 1, Append(acc, t[i]))

ScanStr(t, i) == IF At(t, i, Quote) THEN ScanChars(t, i + 1, << >>) ELSE Failed

\* the strings of an array after its '[' or after a ','
RECURSIVE ScanItems(_, _, _)
AfterItem(t, acc, item) ==
    IF ~ item.ok THEN Failed
    ELSE IF At(t, SkipBlanks(t, item.next), "]")
         THEN Matched(SkipBlanks(t, item.next) + 1, Append(acc, item.val))
    ELSE IF At(t, SkipBlanks(t, item.next), ",")
         THEN ScanItems(t, SkipBlanks(t, SkipBlanks(t, item.next) + 1),
                        Append(acc, item.val))
    ELSE Failed

ScanItems(t, i, acc) == AfterItem(t, acc, ScanStr(t, i))

\* an array of strings
ScanList(t, i) ==
    IF ~ At(t, i, "[") THEN Failed
    ELSE IF At(t, SkipBlanks(t, i + 1), "]") THEN Matched(SkipBlanks(t, i + 1) + 1, << >>)
    ELSE ScanItems(t, SkipBlanks(t, i + 1), << >>)

\* a later value of a key replaces the earlier one
Bind(obj, key, items) ==
    [ k \in DOMAIN obj \cup { key } |-> IF k = key THEN JList(items) ELSE obj[k] ]

\* the members of an object after its '{' or after a ','
RECURSIVE ScanMembers(_, _, _)
AfterValue(t, obj, key, value) ==
    IF ~ value.ok THEN Failed
    ELSE IF At(t, SkipBlanks(t, value.next), "}")
         THEN Matched(SkipBlanks(t, value.next) + 1, Bind(obj, key.val, value.val))
    ELSE IF At(t, SkipBlanks(t, value.next), ",")
         THEN ScanMembers(t, SkipBlanks(t, SkipBlanks(t, value.next) + 1),
                          Bind(obj, key.val, value.val))
    ELSE Failed

AfterKey(t, obj, key) ==
    IF ~ key.ok THEN Failed
    ELSE IF ~ At(t, SkipBlanks(t, key.next), ":") THEN Failed
    ELSE AfterValue(t, obj, key,
                    ScanList(t, SkipBlanks(t, SkipBlanks(t, key.next) + 1)))

ScanMembers(t, i, obj) == AfterKey(t, obj, ScanStr(t, i))

\* an object whose values are arrays of strings
ScanObject(t, i) ==
    IF ~ At(t, i, "{") THEN Failed
    ELSE IF At(t, SkipBlanks(t, i + 1), "}") THEN Matched(SkipBlanks(t, i + 1) + 1, NoObj)
    ELSE ScanMembers(t, SkipBlanks(t, i + 1), NoObj)

\* json.loads on such a text: the value when the whole text is one object,
\* JSONDecodeError otherwise
Loaded(t, object) ==
    IF object.ok /\ SkipBlanks(t, object.next) = Len(t) + 1
    THEN JsonFile("obj", object.val)
    ELSE GarbageFile

json_loads(t) == Loaded(t, ScanObject(t, SkipBlanks(t, 1)))

----------------------------------------------------------------------------
(* The operations *)

NoFs == [ d \in {} |-> [exists |-> FALSE, entries |-> << >>] ]

\* last_clean: whether the call was throttled, whether it raised, the
\* filesystem it found (fs0), the sizes saved before cleaning, the list erased
\* for each item, and what _count_erased_size returned
NoClean == [throttled |-> FALSE, raised |-> FALSE, fs0 |-> NoFs, item_sizes |-> << >>,
            finals |-> << >>, total |-> 0, all_positions |-> << >>]

NoStat == [called |-> FALSE, filepaths |-> << >>, stattype |-> "size",
           raised |-> FALSE, result |-> << >>]

NoRoundTrip == [done |-> FALSE, text |-> << >>, back |-> AbsentFile]

HashSeeds == { 0, 1 }

\* ScannerAndCleaner.__init__ (line 432 of __main__), on the filesystem f
Constructed(f, seed) ==
    /\ hashseed = seed
    /\ watchdirs_content_Path = InitContentPath(f, watch_dirs)
    /\ watchdirs_content_set  = InitContentSet(f, watch_dirs)
    /\ watchdirs_content_list = InitContentList(f, watch_dirs, seed)
    /\ notify_report = << >>
    /\ pc = "constructed"

\* scan (line 433)
Scan ==
    /\ pc = "constructed"
    /\ scanned_file' = watchdirs_file
    /\ LET cmp == CompareSnapshot(watchdirs_file, watchdirs_content_set,
                                  watchdirs_content_Path, hashseed)
           top == TopSizeThings(AllContent(fs, watch_dirs, watchdirs_content_Path),
                                ntopfiles)
       IN  IF cmp.raised
           THEN /\ pc' = "crashed"
                /\ UNCHANGED << watchdirs_file, report_file, notify_report >>
           ELSE /\ pc' = "scanned"
                /\ watchdirs_file' = write_watchdirs(watchdirs_content_list)
                /\ report_file' = Append(report_file,
                                    ScanSection(cmp.msg, cmp.new_content, top, ntopfiles))
                /\ notify_report' = Append(notify_report,
                                    ScanSection(cmp.msg, cmp.new_content, << >>, 0))
    /\ UNCHANGED << fs, now, hashseed, timer_file, watch_dirs, ntopfiles, dirstoclean,
                    clean_each_x_launch, watchdirs_content_Path, watchdirs_content_set,
                    watchdirs_content_list, rm_running, launches, stat_result, round_trip,
                    cleaner_calls,
                    cleaned_calls, last_clean >>

\* the throttle test that cleans already at 2
NotTimeYet_AboveTwo(file) ==
    /\ file.exists
    /\ isdigit(file.text)
    /\ IntOfStr(file.text) > 2

\* the throttle test letting the counter run down to 0
NotTimeYet_DownToZero(file) ==
    /\ file.exists
    /\ isdigit(file.text)
    /\ IntOfStr(file.text) > 0

\* lines 357-359: the throttle test
NotTimeYet(file) ==
    /\ file.exists
    /\ isdigit(file.text)
    /\ IntOfStr(file.text) > 1

\* every path a run of the loop handed to rm
Issued(finals) == UNION { Range(finals[i]) : i \in 1..Len(finals) }

\* lines 413-429: the report is written and the notification text extended
Reported(item_sizes, loop, report) ==
    /\ pc' = "cleaned"
    /\ last_clean' = [throttled |-> FALSE, raised |-> FALSE, fs0 |-> fs,
                      item_sizes |-> item_sizes, finals |-> loop.finals,
                      total |-> report.total, all_positions |-> report.all_positions]
    /\ report_file' = Append(report_file, CleanSection(report))
    /\ notify_report' = Append(notify_report,
                               [CleanSection(report) EXCEPT !.positions = << >>])

\* the targets that something else may delete while cleaner runs
Deletable(f, items) ==
    { d \in Range(TargetPaths(items)) : d \in DOMAIN f /\ f[d].exists }

\* the targets that something else may create while cleaner runs
Creatable(f, items) ==
    { d \in Range(TargetPaths(items)) : d \in DOMAIN f /\ ~ f[d].exists }

\* the filesystem when line 413 measures the targets again: the rm processes
\* of done have finished, the directories of lost were deleted and those of
\* made created (empty) by something else after line 366 had measured the
\* targets
Afterwards(f, done, lost, made) ==
    [ d \in DOMAIN f |->
        IF d \in lost THEN [exists |-> FALSE, entries |-> << >>]
        ELSE IF d \in made THEN [exists |-> TRUE, entries |-> << >>]
        ELSE Remove(f, done)[d] ]

\* lines 362-429: a cleaning run, item_sizes being the sizes saved and loop
\* the outcome of the loop over self.dirstoclean
CleanNow(item_sizes, loop) ==
    \E done \in SUBSET Issued(loop.finals), lost \in SUBSET Deletable(fs, dirstoclean),
       made \in SUBSET Creatable(fs, dirstoclean) :
        /\ timer_file' = [exists |-> TRUE, text |-> StrOfInt(clean_each_x_launch)]
        /\ cleaned_calls' = cleaned_calls \cup { cleaner_calls + 1 }
        /\ fs' = Afterwards(fs, done, lost, made)
        /\ rm_running' = (rm_running \cup Issued(loop.finals)) \ done
        /\ IF loop.raised
           THEN /\ pc' = "crashed"
                /\ last_clean' = [NoClean EXCEPT !.raised = TRUE, !.fs0 = fs,
                                    !.item_sizes = item_sizes, !.finals = loop.finals]
                /\ UNCHANGED << report_file, notify_report >>
           ELSE Reported(item_sizes, loop,
                         count_erased_size(Afterwards(fs, done, lost, made), dirstoclean,
                                           item_sizes))

\* cleaner(clean_each_x_launch) (line 434).  The rm processes are started
\* and not waited for: any of them may have finished when the sizes are
\* measured again
Cleaner ==
    /\ pc = "scanned"
    /\ cleaner_calls' = cleaner_calls + 1
    /\ IF timer_file.exists /\ isdigit(timer_file.text) /\ IntRaises(timer_file.text)
       THEN \* int(file_content) raises ValueError
            /\ pc' = "crashed"
            /\ last_clean' = [NoClean EXCEPT !.raised = TRUE]
            /\ UNCHANGED << fs, timer_file, report_file, notify_report, rm_running,
                            cleaned_calls >>
       ELSE IF NotTimeYet(timer_file)
       THEN /\ timer_file' = [exists |-> TRUE,
                              text |-> StrOfInt(IntOfStr(timer_file.text) - 1)]
            /\ pc' = "cleaned"
            /\ last_clean' = [NoClean EXCEPT !.throttled = TRUE]
            /\ UNCHANGED << fs, report_file, notify_report, rm_running, cleaned_calls >>
       ELSE CleanNow(add_stat_properties(fs, TargetPaths(dirstoclean),
                                         "size", FALSE, TRUE).result,
                     CleanLoop(fs, dirstoclean, now))
    /\ UNCHANGED << now, hashseed, watchdirs_file, watch_dirs, ntopfiles, dirstoclean,
                    clean_each_x_launch, watchdirs_content_Path, watchdirs_content_set,
                    watchdirs_content_list, launches, stat_result, round_trip, scanned_file >>

\* report (line 435): notify-send is started with self.notify_report
Report ==
    /\ pc = "cleaned"
    /\ pc' = "done"
    /\ UNCHANGED << fs, now, hashseed, watchdirs_file, timer_file, report_file,
                    watch_dirs, ntopfiles, dirstoclean, clean_each_x_launch,
                    watchdirs_content_Path, watchdirs_content_set,
                    watchdirs_content_list, notify_report, rm_running, launches,
                    stat_result, round_trip,
                    cleaner_calls, cleaned_calls, scanned_file, last_clean >>

\* _add_stat_properties (a static method) called on the children of a
\* directory
AddStat(dir) ==
    /\ ~ stat_result.called
    /\ \E stattype \in { "size", "age" }, sort \in BOOLEAN, sort_reversed \in BOOLEAN :
         stat_result' =
            [called |-> TRUE, filepaths |-> Glob(fs, dir), stattype |-> stattype,
             raised |-> add_stat_properties(fs, Glob(fs, dir), stattype,
                                            sort, sort_reversed).raised,
             result |-> add_stat_properties(fs, Glob(fs, dir), stattype,
                                            sort, sort_reversed).result]
    /\ UNCHANGED << fs, now, hashseed, watchdirs_file, timer_file, report_file,
                    watch_dirs, ntopfiles, dirstoclean, clean_each_x_launch,
                    watchdirs_content_Path, watchdirs_content_set,
                    watchdirs_content_list, notify_report, pc, rm_running, launches,
                    round_trip, cleaner_calls, cleaned_calls, scanned_file,
                    last_clean >>

\* the program is launched again (line 432: a new ScannerAndCleaner reads the
\* watched directories); the data files are as the last run left them
Launch ==
    /\ pc \in { "done", "crashed" }
    /\ launches < 2 * clean_each_x_launch + 1
    /\ launches' = launches + 1
    /\ now' = now + 1
    /\ \E seed \in HashSeeds :
         /\ hashseed' = seed
         /\ watchdirs_content_list' = InitContentList(fs, watch_dirs, seed)
    /\ watchdirs_content_Path' = InitContentPath(fs, watch_dirs)
    /\ watchdirs_content_set'  = InitContentSet(fs, watch_dirs)
    /\ notify_report' = << >>
    /\ pc' = "constructed"
    /\ UNCHANGED << fs, watchdirs_file, timer_file, report_file, watch_dirs, ntopfiles,
                    dirstoclean, clean_each_x_launch, rm_running, stat_result, round_trip,
                    cleaner_calls, cleaned_calls, scanned_file, last_clean >>

\* between two launches something else creates the child e of dir, which
\* glob (lines 119, 367) lists from then on
Appear(dir, e) ==
    /\ pc = "done"
    /\ fs[dir].exists
    /\ e.path \notin Range(Glob(fs, dir))
    /\ fs' = [fs EXCEPT ![dir].entries = Append(@, e)]
    /\ UNCHANGED << now, hashseed, watchdirs_file, timer_file, report_file,
                    watch_dirs, ntopfiles, dirstoclean, clean_each_x_launch,
                    watchdirs_content_Path, watchdirs_content_set,
                    watchdirs_content_list, notify_report, pc, rm_running, launches,
                    stat_result, round_trip, cleaner_calls, cleaned_calls, scanned_file,
                    last_clean >>

\* _write_watchdirs on a new object, and the file read as scan reads it
\* (line 259)
WriteRead ==
    /\ pc = "constructed"
    /\ ~ round_trip.done
    /\ watchdirs_file' = write_watchdirs(watchdirs_content_list)
    /\ round_trip' =
         [done |-> TRUE,
          text |-> json_dumps(KeyOrder(watch_dirs), watchdirs_content_list),
          back |-> json_loads(json_dumps(KeyOrder(watch_dirs), watchdirs_content_list))]
    /\ UNCHANGED << fs, now, hashseed, timer_file, report_file, watch_dirs, ntopfiles,
                    dirstoclean, clean_each_x_launch, watchdirs_content_Path,
                    watchdirs_content_set, watchdirs_content_list, notify_report, pc,
                    rm_running, launches, stat_result, cleaner_calls, cleaned_calls,
                    scanned_file, last_clean >>

\* an rm process started by _erase_subs finishes
RmExits ==
    \E p \in rm_running :
        /\ fs' = Remove(fs, { p })
        /\ rm_running' = rm_running \ { p }
        /\ UNCHANGED << now, hashseed, watchdirs_file, timer_file, report_file,
                        watch_dirs, ntopfiles, dirstoclean, clean_each_x_launch,
                        watchdirs_content_Path, watchdirs_content_set,
                        watchdirs_content_list, notify_report, pc, launches,
                        stat_result, round_trip,
                        cleaner_calls, cleaned_calls, scanned_file, last_clean >>

----------------------------------------------------------------------------
(* Configurations and initial states *)

MaxEntries == 3         \* children of the first directory
MaxOther   == 2         \* children of the second directory
MaxTop     == 3         \* ntopfiles
CleanEachXLaunch == 14  \* sc.cleaner(14)

Now == 1700000000

DirA == << "A" >>
DirB == << "B" >>
DirC == << "C" >>       \* a directory that is no longer watched

SmallSize == 65536
BigSize   == 196608

\* the name of the i-th child of a directory
Name(i) == << (IF i % 2 = 1 THEN "k" ELSE "x"), Digits[i + 1] >>

FileEntry(dir, i, size, mtime) ==
    [path |-> ChildPath(dir, Name(i)), kind |-> "file", size |-> size, mtimes |-> << mtime >>]
DirEntry(dir, i, size, mtimes) ==
    [path |-> ChildPath(dir, Name(i)), kind |-> "dir", size |-> size, mtimes |-> mtimes]
GoneEntry(dir, i) ==
    [path |-> ChildPath(dir, Name(i)), kind |-> "gone", size |-> 0, mtimes |-> << >>]

\* the members of a set of slots, ascending
SlotSeq(S, n) == SelectSeq([ i \in 1..n |-> i ], LAMBDA i : i \in S)

\* plain files in the slots S of dir
PlainListing(dir, S, n) ==
    LET slots == SlotSeq(S, n)
    IN  [ j \in 1..Len(slots) |-> FileEntry(dir, slots[j], SmallSize, Now) ]

SlotPaths(dir, S, n) ==
    LET slots == SlotSeq(S, n)
    IN  [ j \in 1..Len(slots) |-> ChildPath(dir, Name(slots[j])) ]

\* the state of a process that has constructed its ScannerAndCleaner, the
\* data files being as given
Started(f, seed, snapshot, timer, dirs, ntop, items, interval) ==
    /\ fs = f
    /\ now = Now
    /\ watchdirs_file = snapshot
    /\ timer_file = timer
    /\ report_file = << >>
    /\ watch_dirs = dirs
    /\ ntopfiles = ntop
    /\ dirstoclean = items
    /\ clean_each_x_launch = interval
    /\ Constructed(f, seed)
    /\ rm_running = {}
    /\ launches = 1
    /\ cleaner_calls = 0
    /\ cleaned_calls = {}
    /\ scanned_file = AbsentFile
    /\ last_clean = NoClean
    /\ stat_result = NoStat
    /\ round_trip = NoRoundTrip

NoTimer == [exists |-> FALSE, text |-> << >>]

\* values a key of watchdirs.json may hold
BadValues ==
    { [t |-> "str",  items |-> << << "k" >>, << "1" >> >>],
      [t |-> "num",  items |-> << >>],
      [t |-> "null", items |-> << >>] }

ListValues(dir, n) == { JList(SlotPaths(dir, S, n)) : S \in SUBSET (1..n) }

\* watchdirs.json as an earlier run, or anything else, may have left it
SnapshotFiles(currentB) ==
    { AbsentFile, GarbageFile }
    \cup { JsonFile(top, NoObj) : top \in { "list", "str", "num", "null" } }
    \cup UNION { UNION { {
            JsonFile("obj", [ k \in keys |->
                IF k = DirA THEN a ELSE IF k = DirB THEN b ELSE JList(<< >>) ])
            : b \in IF DirB \in keys
                    THEN { JList(currentB), JList(<< >>), [t |-> "null", items |-> << >>] }
                    ELSE { JList(<< >>) } }
            : a \in IF DirA \in keys
                    THEN ListValues(DirA, MaxEntries) \cup BadValues
                    ELSE { JList(<< >>) } }
         : keys \in SUBSET { DirA, DirB, DirC } }

\* two watched directories of plain files and every snapshot, nothing to
\* clean
ScanDiffStarts(interval) ==
    \E SA \in SUBSET (1..MaxEntries), SB \in SUBSET (1..MaxOther), seed \in HashSeeds :
    \E snapshot \in SnapshotFiles(SlotPaths(DirB, SB, MaxOther)) :
        Started([ d \in { DirA, DirB } |->
                    [exists |-> TRUE,
                     entries |-> IF d = DirA THEN PlainListing(DirA, SA, MaxEntries)
                                 ELSE PlainListing(DirB, SB, MaxOther)] ],
                seed, snapshot, NoTimer, << DirA, DirB >>, MaxTop, << >>, interval)

\* scans of two watched directories of plain files against every snapshot
InitScanDiff == ScanDiffStarts(CleanEachXLaunch)

\* the children a watched directory may hold when sizes are ranked
SizedEntries(dir, i) ==
    { FileEntry(dir, i, SmallSize, Now), DirEntry(dir, i, BigSize, << Now >>),
      GoneEntry(dir, i) }

RECURSIVE SizedListings(_, _)
SizedListings(dir, n) ==
    IF n = 0 THEN { << >> }
    ELSE LET shorter == SizedListings(dir, n - 1)
         IN  shorter \cup
             { Append(l, e) : l \in { x \in shorter : Len(x) = n - 1 },
                              e \in SizedEntries(dir, n) }

\* first scans that rank the sizes of two watched directories
InitScanTop ==
    \E la \in SizedListings(DirA, MaxEntries), lb \in SizedListings(DirB, MaxOther),
       ntop \in 0..MaxTop :
        Started([ d \in { DirA, DirB } |->
                    [exists |-> TRUE, entries |-> IF d = DirA THEN la ELSE lb] ],
                0, AbsentFile, NoTimer, << DirA, DirB >>, ntop, << >>,
                CleanEachXLaunch)

InitScan == InitScanDiff \/ InitScanTop

NextScan == Scan

\* one scan by a freshly constructed object
SpecScan == InitScan /\ [][NextScan]_vars

----------------------------------------------------------------------------
(* Cleaning runs *)

MaxKeep == 2            \* num_to_keep
MaxDays == 1            \* remove_older

\* modification times around the threshold of remove_older = 1
TNew == Now - 1
TCut == Now - SecondsPerDay
TOld == Now - SecondsPerDay - 1

Times == { TNew, TCut, TOld }

\* the files inside a first-level directory, as find lists them
DirContents == { << >>, << TCut >>, << TOld, TNew >>, << TNew, TOld >> }

\* the children a cleaned directory may hold
CleanedEntries(dir, i) ==
    { FileEntry(dir, i, SmallSize, t) : t \in Times }
    \cup { DirEntry(dir, i, BigSize, c) : c \in DirContents }
    \cup { GoneEntry(dir, i) }

RECURSIVE CleanedListings(_, _)
CleanedListings(dir, n) ==
    IF n = 0 THEN { << >> }
    ELSE LET shorter == CleanedListings(dir, n - 1)
         IN  shorter \cup
             { Append(l, e) : l \in { x \in shorter : Len(x) = n - 1 },
                              e \in CleanedEntries(dir, n) }

One_path_item(path, type_to_del, num_to_keep, remove_older, ignore) ==
    [path |-> path, type_to_del |-> type_to_del, num_to_keep |-> num_to_keep,
     remove_older |-> remove_older, ignore |-> ignore]

\* an ignore substring that the names of the odd children contain
IgnoreK == << "k" >>

\* one target under every retention policy.  find prints the files of a
\* directory newest last here: the age is taken after a sort, and both
\* orders are inputs of InitProbe
InitRetention ==
    \E la \in { l \in CleanedListings(DirA, MaxEntries) :
                  \A i \in 1..Len(l) : l[i].mtimes /= << TNew, TOld >> },
       type_to_del \in { "a", "f" },
       num_to_keep \in 0..MaxKeep,
       remove_older \in { << >> } \cup { << d >> : d \in 1..MaxDays },
       ignore \in { << >>, << IgnoreK >> } :
        Started([ d \in { DirA } |-> [exists |-> TRUE, entries |-> la] ],
                0, AbsentFile, NoTimer, << DirA >>, MaxTop,
                << One_path_item(DirA, type_to_del, num_to_keep, remove_older, ignore) >>,
                CleanEachXLaunch)

\* two targets cleaned in full, the second of its plain files only
InitTargets ==
    \E la \in SizedListings(DirA, MaxEntries), SB \in SUBSET (1..MaxOther),
       there \in BOOLEAN :
        /\ there \/ SB = {}
        /\ Started([ d \in { DirA, DirB } |->
                    [exists |-> d = DirA \/ there,
                     entries |-> IF d = DirA THEN la
                                 ELSE PlainListing(DirB, SB, MaxOther)] ],
                0, AbsentFile, NoTimer, << DirA >>, MaxTop,
                << One_path_item(DirA, "a", 0, << >>, << >>),
                   One_path_item(DirB, "f", 0, << >>, << >>) >>,
                CleanEachXLaunch)

InitClean == InitRetention \/ InitTargets

NextClean == Scan \/ Cleaner

\* one run of the program up to the return of cleaner
SpecClean == InitClean /\ [][NextClean]_vars

\* the program run again on directories nothing changes: three launches
\* with cleaner(1), nothing being configured for cleaning
InitRescan == ScanDiffStarts(1)

NextRescan == Scan \/ Cleaner \/ Report \/ Launch

SpecRescan == InitRescan /\ [][NextRescan]_vars

\* characters of file names that JSON writes in another form, or uses itself
OddChars == { Quote, Backslash, Newline, EAcute, ",", " ", "]", "u" }

\* file names of one or two such characters
OddNames == { << c >> : c \in OddChars } \cup { << c, d >> : c, d \in OddChars }

\* a watched directory listed twice and one listed once, holding up to two
\* files and one file of such names
InitRoundTrip ==
    \E na \in OddNames, nb, nc \in { << c >> : c \in OddChars }, count \in 0..2,
       seed \in HashSeeds :
        /\ na /= nb
        /\ count < 2 => nb = << Quote >>
        /\ count < 1 => na = << Quote >>
        /\ Started([ d \in { DirA, DirB } |->
                      [exists |-> TRUE,
                       entries |->
                         IF d = DirB
                         THEN << [path |-> ChildPath(DirB, nc), kind |-> "file",
                                  size |-> SmallSize, mtimes |-> << Now >>] >>
                         ELSE SubSeq(<< [path |-> ChildPath(DirA, na), kind |-> "file",
                                         size |-> SmallSize, mtimes |-> << Now >>],
                                        [path |-> ChildPath(DirA, nb), kind |-> "dir",
                                         size |-> BigSize, mtimes |-> << >>] >>,
                                     1, count)] ],
                   seed, AbsentFile, NoTimer, << DirA, DirB, DirA >>, MaxTop, << >>,
                   CleanEachXLaunch)

NextRoundTrip == WriteRead

\* one snapshot written and read back
SpecRoundTrip == InitRoundTrip /\ [][NextRoundTrip]_vars

\* a batch of files, directories and vanished entries to measure
InitProbe ==
    \E la \in CleanedListings(DirA, MaxEntries) :
        Started([ d \in { DirA } |-> [exists |-> TRUE, entries |-> la] ],
                0, AbsentFile, NoTimer, << DirA >>, MaxTop, << >>, CleanEachXLaunch)

NextProbe == AddStat(DirA)

\* one call of _add_stat_properties
SpecProbe == InitProbe /\ [][NextProbe]_vars

----------------------------------------------------------------------------
(* The program launched again and again *)

MaxInterval == 3        \* clean_each_x_launch, besides the 14 of __main__

Intervals == (1..MaxInterval) \cup { CleanEachXLaunch }

\* the file that is created in the cleaned directory
Junk == FileEntry(DirA, 1, SmallSize, Now)

\* the first launch: no data file exists yet; DirA is watched and cleaned of
\* its files at every interval-th launch
InitLaunches ==
    \E interval \in Intervals, la \in { << >>, << Junk >> } :
        Started([ d \in { DirA } |-> [exists |-> TRUE, entries |-> la] ],
                0, AbsentFile, NoTimer, << DirA >>, MaxTop,
                << One_path_item(DirA, "f", 0, << >>, << >>) >>, interval)

Next ==
    \/ Launch
    \/ Scan
    \/ Cleaner
    \/ Report
    \/ RmExits
    \/ Appear(DirA, Junk)

\* 2 * clean_each_x_launch + 1 launches of the program
Spec == InitLaunches /\ [][Next]_vars

\* what crapremoval_timer may hold when cleaner reads it
TimerTexts ==
    { << >>, << "a" >>, << "-", "5" >>, << "+", "3" >>, << " ", "3" >>,
      << "5", Newline >>, << "0" >>, << "1" >>, << "2" >>, << "3" >>,
      << "0", "0", "7" >>, << "1", "4" >>, << "²" >>, << "1", "²" >> }

\* one target cleaned in full, whatever the timer file holds
InitThrottle ==
    \E la \in SizedListings(DirA, MaxOther), interval \in Intervals,
       timer \in { NoTimer } \cup { [exists |-> TRUE, text |-> t] : t \in TimerTexts } :
        Started([ d \in { DirA } |-> [exists |-> TRUE, entries |-> la] ],
                0, AbsentFile, timer, << DirA >>, MaxTop,
                << One_path_item(DirA, "a", 0, << >>, << >>) >>, interval)

\* one run of the program up to the return of cleaner
SpecThrottle == InitThrottle /\ [][NextClean]_vars

----------------------------------------------------------------------------
(* Properties of scan *)

Last(s) == s[Len(s)]

\* a scan has returned or raised, and nothing has run since
ScanEnded == pc \in { "scanned", "crashed" } /\ cleaner_calls = 0

\* watchdirs.json held what _write_watchdirs writes: a mapping from
\* directory paths to lists of path strings
IsSnapshot(file) ==
    /\ file.state = "json"
    /\ file.top = "obj"
    /\ \A k \in DOMAIN file.obj : file.obj[k].t = "list"

\* the children of the watched directories that have a size, as (path, size)
Measurable ==
    { << e.path, e.size >> : e \in { x \in AllEntries(fs) : x.kind /= "gone" } }

SizeOfPath(p) == Stat(fs, p).size

Min(a, b) == IF a < b THEN a ELSE b

\* C6: the largest-entries list of a scan holds the ntopfiles largest
\* measurable children of all the watched directories together (all of them
\* when there are fewer), each once, in descending order of size, and no
\* child without a size.
C6_TopNLargestOverUnion ==
    pc = "scanned" =>
        LET top  == Last(report_file).top
            rows == { top[i].path : i \in 1..Len(top) }
        IN  /\ Len(top) = Min(ntopfiles, Cardinality(Measurable))
            /\ Cardinality(rows) = Len(top)
            /\ \A p \in rows : \E m \in Measurable : m[1] = p
            /\ \A i, j \in 1..Len(top) :
                 i < j => SizeOfPath(top[i].path) >= SizeOfPath(top[j].path)
            /\ \A m \in Measurable :
                 m[1] \notin rows => \A p \in rows : SizeOfPath(p) >= m[2]

\* the case of C7: the snapshot read was a mapping to lists without the key
\* of the watched directory B
NewDirCase ==
    /\ ScanEnded
    /\ IsSnapshot(scanned_file)
    /\ DirB \in WatchKeys(watch_dirs)
    /\ DirB \notin DOMAIN scanned_file.obj

C8_DiffIsCurrentMinusPrevious ==
    (ScanEnded /\ IsSnapshot(scanned_file)) =>
        /\ pc = "scanned"
        /\ \A key \in WatchKeys(watch_dirs) \cap DOMAIN scanned_file.obj :
             LET current  == Range(Glob(fs, key))
                 previous == Range(scanned_file.obj[key].items)
                 reported == Last(report_file).new_content
             IN  /\ key \in DOMAIN reported <=> current \ previous /= {}
                 /\ key \in DOMAIN reported =>
                      /\ ~ reported[key].newdir
                      /\ Range(reported[key].items) = current \ previous
                      /\ Len(reported[key].items) = Cardinality(current \ previous)
                      /\ Range(reported[key].items) \cap (previous \ current) = {}

C8_Witness ==
    /\ ScanEnded
    /\ IsSnapshot(scanned_file)
    /\ DirA \in DOMAIN scanned_file.obj
    /\ DirA \in DOMAIN Last(report_file).new_content
    /\ Cardinality(Range(Last(report_file).new_content[DirA].items)) = 1
    /\ Range(scanned_file.obj[DirA].items) \cap Range(Glob(fs, DirA)) /= {}
    /\ Range(scanned_file.obj[DirA].items) \ Range(Glob(fs, DirA)) /= {}

\* C10: whatever watchdirs.json holds, scan raises nothing, leaves the
\* current listing in watchdirs.json and appends a scan section to report.log.
C10_ScanNeverFatal ==
    /\ pc /= "crashed"
    /\ pc = "scanned" =>
         /\ watchdirs_file.state = "json"
         /\ watchdirs_file.top = "obj"
         /\ DOMAIN watchdirs_file.obj = WatchKeys(watch_dirs)
         /\ \A k \in WatchKeys(watch_dirs) :
              /\ watchdirs_file.obj[k].t = "list"
              /\ Range(watchdirs_file.obj[k].items) = Range(Glob(fs, k))
         /\ Len(report_file) = 1
         /\ Last(report_file).kind = "scan"

----------------------------------------------------------------------------
(* Properties of _add_stat_properties *)

RECURSIVE MaxOfSeq(_)
MaxOfSeq(s) ==
    IF Len(s) = 1 THEN s[1]
    ELSE IF Head(s) >= MaxOfSeq(Tail(s)) THEN Head(s) ELSE MaxOfSeq(Tail(s))

\* the children that have an age: a file, or a directory with a file in it
HasAge(e) == e.kind = "file" \/ (e.kind = "dir" /\ e.mtimes /= << >>)

\* the age of a child: its latest modification time
AgeOf(e) == MaxOfSeq(e.mtimes)

\* C9: measured for age, a directory with at least one file in it gets
\* exactly one entry of the result, and its value is the latest modification
\* time of the files in it.
C9_DirAgeIsNewestFile ==
    (stat_result.called /\ stat_result.stattype = "age") =>
        \A e \in AllEntries(fs) :
            (e.kind = "dir" /\ e.mtimes /= << >>) =>
                /\ ~ stat_result.raised
                /\ Cardinality({ i \in 1..Len(stat_result.result) :
                                   stat_result.result[i][1] = e.path }) = 1
                /\ \A i \in 1..Len(stat_result.result) :
                     stat_result.result[i][1] = e.path =>
                        stat_result.result[i][2] = AgeOf(e)

----------------------------------------------------------------------------
(* Properties of cleaner *)

\* a call of cleaner passed the throttle and reached the loop over the targets
CleanRan == cleaner_calls > 0 /\ ~ last_clean.throttled /\ DOMAIN last_clean.fs0 /= {}

\* the first target and its children as the call found them
Item1 == dirstoclean[1]
Children1 == Range(last_clean.fs0[Item1.path].entries)

\* the candidates of the first target: its children after the type filter
Candidates1 ==
    IF Item1.type_to_del = "f" THEN { e \in Children1 : e.kind = "file" } ELSE Children1

\* the candidates that have an age
Aged1 == { e \in Candidates1 : HasAge(e) }

\* the paths handed to rm for the first target
Selected1 == IF Len(last_clean.finals) >= 1 THEN Range(last_clean.finals[1]) ELSE {}

DistinctAges(S) == \A x, y \in S : x /= y => AgeOf(x) /= AgeOf(y)

\* C2: with num_to_keep = k > 0 and no ignore substrings, of n candidates
\* with pairwise distinct ages the n-k oldest are handed to rm (those with at
\* least k newer candidates), and none when n <= k.
C2_KeepNSelectsOldest ==
    (/\ CleanRan
     /\ Item1.num_to_keep > 0
     /\ Item1.ignore = << >>
     /\ DistinctAges(Aged1)) =>
        /\ ~ last_clean.raised
        /\ Selected1 =
             { e.path : e \in { x \in Aged1 :
                 Cardinality({ y \in Aged1 : AgeOf(y) > AgeOf(x) }) >= Item1.num_to_keep } }

\* C3: with num_to_keep = 0, remove_older = D and no ignore substrings, a
\* candidate is handed to rm exactly when its modification time is below
\* now - D * 86400.
C3_AgeThresholdSelectsOlder ==
    (/\ CleanRan
     /\ Item1.num_to_keep = 0
     /\ Item1.remove_older /= << >>
     /\ Item1.ignore = << >>) =>
        /\ ~ last_clean.raised
        /\ Selected1 =
             { e.path : e \in { x \in Aged1 :
                 AgeOf(x) < now - Item1.remove_older[1] * SecondsPerDay } }

\* the filesystem without the children of the first target that an ignore
\* substring matches
WithoutIgnored(f) ==
    [ d \in DOMAIN f |->
        [ f[d] EXCEPT !.entries =
            SelectSeq(f[d].entries,
                      LAMBDA e : d /= Item1.path \/ NotIgnored(Item1, e.path)) ] ]

\* C4: under num_to_keep > 0 no child that an ignore substring matches is
\* handed to rm, and the children handed to rm are those that would be if
\* the matching children were not in the directory.
C4_IgnoredDoNotCount ==
    (/\ CleanRan
     /\ ~ last_clean.raised
     /\ Item1.num_to_keep > 0
     /\ Item1.ignore /= << >>) =>
        /\ \A p \in Selected1 : NotIgnored(Item1, p)
        /\ Selected1 =
             Range(SelectForItem(WithoutIgnored(last_clean.fs0), Item1, now).final)

\* C5: for a target measured before and after, the value reported is the
\* size before minus the size after, so a negative value is printed only
\* when the content grew.
C5_ReclaimedIsBeforeMinusAfter ==
    (pc = "cleaned" /\ CleanRan) =>
        \A i \in 1..Len(last_clean.all_positions) :
            ~ last_clean.all_positions[i].dash =>
                /\ last_clean.all_positions[i].diff =
                     last_clean.item_sizes[i][2]
                        - DuOfDir(fs, last_clean.all_positions[i].path)
                /\ Last(report_file).positions[i].mib.neg =>
                     DuOfDir(fs, last_clean.all_positions[i].path)
                        > last_clean.item_sizes[i][2]

----------------------------------------------------------------------------
(* Properties of the throttle *)

\* the calls of cleaner, out of the first n, that fall on 1, k+1, 2k+1, ...
EveryKth(n, k) == { c \in 1..n : (c - 1) % k = 0 }

\* what timer holds after the c-th call: k after a cleaning call, then one
\* less with every call down to 1
TimerAfter(c, k) == StrOfInt(k - ((c - 1) % k))

\* a call of cleaner that does not fall on 1, k+1, 2k+1, ...
ThrottledCall ==
    /\ cleaner_calls' = cleaner_calls + 1
    /\ cleaner_calls % clean_each_x_launch /= 0

\* C1: starting without a timer file, the calls of cleaner(k) that clean are
\* exactly calls 1, k+1, 2k+1, ...; every other call only writes the counter,
\* which goes k-1, ..., 1 over calls 2..k, and removes nothing.
C1_CleansEveryKthCall ==
    /\ [](/\ cleaned_calls = EveryKth(cleaner_calls, clean_each_x_launch)
          /\ (cleaner_calls > 0 /\ pc \in { "cleaned", "done" }) =>
                timer_file = [exists |-> TRUE,
                              text |-> TimerAfter(cleaner_calls, clean_each_x_launch)])
    /\ [][ThrottledCall =>
            /\ fs' = fs
            /\ rm_running' = rm_running
            /\ report_file' = report_file
            /\ last_clean'.throttled]_vars

\* call k+1 of cleaner(14) removes a file that calls 2..k had left alone
C1_Witness ==
    /\ clean_each_x_launch = CleanEachXLaunch
    /\ cleaner_calls = CleanEachXLaunch + 1
    /\ cleaned_calls = { 1, CleanEachXLaunch + 1 }
    /\ pc = "cleaned"
    /\ last_clean.finals = << << Junk.path >> >>
    /\ Len(last_clean.fs0[DirA].entries) = 1

----------------------------------------------------------------------------
(* Properties of the clean report *)

\* cleaner has returned from a cleaning run, and nothing has run since
CleanReturned == pc = "cleaned" /\ CleanRan

\* the change of size of the i-th target measured before the cleaning: what
\* du prints for it now less what was saved, nothing for one that is gone
DeltaNow(i) ==
    IF fs[last_clean.item_sizes[i][1]].exists
    THEN DuOfDir(fs, last_clean.item_sizes[i][1]) - last_clean.item_sizes[i][2]
    ELSE 0

\* C11: a target measured before the cleaning whose directory is gone when
\* the targets are measured again has the '-' marker for its entry of the
\* clean report, and the total is the sum of the changes of the other
\* targets.
C11_GoneTargetIsDashed ==
    CleanReturned =>
        /\ Len(Last(report_file).positions) = Len(last_clean.item_sizes)
        /\ \A i \in 1..Len(last_clean.item_sizes) :
             /\ Last(report_file).positions[i].path = last_clean.item_sizes[i][1]
             /\ Last(report_file).positions[i].dash
                  <=> ~ fs[last_clean.item_sizes[i][1]].exists
        /\ last_clean.total =
             SumSeq([ i \in 1..Len(last_clean.item_sizes) |-> DeltaNow(i) ])
        /\ Last(report_file).total = bytes_to_mib(last_clean.total)

\* of two targets measured, the second is gone and the first has shrunk
C11_Witness ==
    /\ CleanReturned
    /\ Len(last_clean.item_sizes) = 2
    /\ ~ fs[last_clean.item_sizes[2][1]].exists
    /\ last_clean.item_sizes[2][2] > 0
    /\ Last(report_file).positions[2].dash
    /\ ~ Last(report_file).positions[1].dash
    /\ last_clean.total /= 0

----------------------------------------------------------------------------
(* Properties of a second scan *)

\* the scan of the second launch has ended, the first launch having run
\* scan to its end and gone on to cleaner
SecondScanEnded ==
    /\ launches = 2
    /\ cleaner_calls = 1
    /\ pc \in { "scanned", "crashed" }

\* C12: the scan of a launch that follows a launch whose scan completed,
\* the watched directories being unchanged, reports 'No new
\* files/directories', whatever watchdirs.json held before the first scan.
C12_SecondScanFindsNothing ==
    SecondScanEnded =>
        /\ pc = "scanned"
        /\ Last(report_file).kind = "scan"
        /\ Last(report_file).msg = "none"
        /\ Last(report_file).new_content = NoContent
        /\ Last(notify_report).msg = "none"

\* the first scan had reported a new directory and new children
C12_Witness ==
    /\ SecondScanEnded
    /\ pc = "scanned"
    /\ report_file[1].msg = "found"
    /\ DirB \in DOMAIN report_file[1].new_content
    /\ report_file[1].new_content[DirB].newdir
    /\ DirA \in DOMAIN report_file[1].new_content
    /\ Len(report_file[1].new_content[DirA].items) = 2
    /\ Last(report_file).msg = "none"

----------------------------------------------------------------------------
(* Properties of the snapshot file *)

\* C13: the text _write_watchdirs writes, read with json.loads, is a mapping
\* whose keys are the watched directories and whose value for each is a list
\* of the children of the directory, each once and no other string.
C13_SnapshotReadsBackSetEqual ==
    round_trip.done =>
        /\ round_trip.back.state = "json"
        /\ round_trip.back.top = "obj"
        /\ DOMAIN round_trip.back.obj = WatchKeys(watch_dirs)
        /\ \A key \in WatchKeys(watch_dirs) :
             /\ round_trip.back.obj[key].t = "list"
             /\ Range(round_trip.back.obj[key].items) = Range(Glob(fs, key))
             /\ Len(round_trip.back.obj[key].items) = Cardinality(Range(Glob(fs, key)))
        /\ round_trip.back = watchdirs_file

\* two children whose names hold a quote and a backslash, listed in the
\* order opposite to glob's
C13_Witness ==
    /\ round_trip.done
    /\ Len(Glob(fs, DirA)) = 2
    /\ \E i \in 1..Len(Glob(fs, DirA)[1]) : Glob(fs, DirA)[1][i] = Quote
    /\ \E i \in 1..Len(Glob(fs, DirA)[2]) : Glob(fs, DirA)[2][i] = Backslash
    /\ round_trip.back.state = "json"
    /\ round_trip.back.obj[DirA].items = << Glob(fs, DirA)[2], Glob(fs, DirA)[1] >>
    /\ Len(round_trip.text) > Len(Glob(fs, DirA)[1]) + Len(Glob(fs, DirA)[2]) + 20

----------------------------------------------------------------------------
(* Properties of the counter file *)

\* the counter file holds decimal digits only
DecimalCounter(file) ==
    /\ file.exists
    /\ file.text /= << >>
    /\ \A i \in 1..Len(file.text) : file.text[i] \in Range(Digits)

\* a step that is a call of cleaner
CleanerCalled == cleaner_calls' = cleaner_calls + 1

\* C14: called with a counter file that holds a decimal number above 1,
\* cleaner writes that number less one to the file and returns: it starts no
\* rm, measures no size, appends nothing to report.log and leaves
\* notify_report as it was.
C14_ThrottledCallWritesCounterOnly ==
    [][(/\ CleanerCalled
        /\ DecimalCounter(timer_file)
        /\ IntOfStr(timer_file.text) > 1) =>
            /\ timer_file' = [exists |-> TRUE,
                              text |-> StrOfInt(IntOfStr(timer_file.text) - 1)]
            /\ pc' = "cleaned"
            /\ fs' = fs
            /\ rm_running' = rm_running
            /\ report_file' = report_file
            /\ notify_report' = notify_report
            /\ watchdirs_file' = watchdirs_file
            /\ cleaned_calls' = cleaned_calls
            /\ last_clean'.item_sizes = << >>
            /\ last_clean'.finals = << >>]_vars

\* a counter file holding 007 was rewritten as 6 while the target held
\* children and the scan section stayed the last of report.log
C14_Witness ==
    /\ pc = "cleaned"
    /\ cleaner_calls = 1
    /\ last_clean.throttled
    /\ clean_each_x_launch = CleanEachXLaunch
    /\ timer_file = [exists |-> TRUE, text |-> << "6" >>]
    /\ Len(fs[DirA].entries) = 2
    /\ Len(report_file) = 1
    /\ Len(notify_report) = 1

\* C17: called with a counter file that is absent, or holds anything but a
\* decimal number, or holds a number of at most 1, cleaner writes the
\* interval to the file and goes through a cleaning run in the same call.
C17_InvalidCounterResetsAndCleans ==
    [][(/\ CleanerCalled
        /\ ~ (DecimalCounter(timer_file) /\ IntOfStr(timer_file.text) > 1)) =>
            /\ timer_file' = [exists |-> TRUE, text |-> StrOfInt(clean_each_x_launch)]
            /\ cleaned_calls' = cleaned_calls \cup { cleaner_calls + 1 }
            /\ ~ last_clean'.throttled
            /\ pc' = "cleaned"
            /\ Last(report_file').kind = "clean"]_vars

----------------------------------------------------------------------------
(* Further properties of cleaner, scan and _add_stat_properties *)

\* C15: for a target with num_to_keep = 0, remove_older unset and ignore
\* substrings, cleaner raises nothing and hands to rm exactly the children
\* left by the type filter whose path holds none of the substrings.
C15_FullCleaningSparesIgnored ==
    (/\ CleanRan
     /\ Item1.num_to_keep = 0
     /\ Item1.remove_older = << >>
     /\ Item1.ignore /= << >>) =>
        /\ ~ last_clean.raised
        /\ Selected1 = { e.path : e \in { x \in Candidates1 : NotIgnored(Item1, x.path) } }

\* C16: _add_stat_properties raises nothing and returns exactly one tuple
\* for every path that can be measured (in age mode: a file, or a directory
\* with a file in it; in size mode: anything that has not vanished) and none
\* for any other.
C16_EveryBatchIsMeasured ==
    stat_result.called =>
        /\ ~ stat_result.raised
        /\ \A e \in AllEntries(fs) :
             Cardinality({ i \in 1..Len(stat_result.result) :
                             stat_result.result[i][1] = e.path })
               = IF (IF stat_result.stattype = "age" THEN HasAge(e) ELSE e.kind /= "gone")
                 THEN 1 ELSE 0

\* C18: when scan has returned, watchdirs.json maps exactly the watched
\* directories, each to a list of its children, each child once, whatever
\* the file held before.
C18_SnapshotIsCurrentListing ==
    (ScanEnded /\ pc = "scanned") =>
        /\ watchdirs_file.state = "json"
        /\ watchdirs_file.top = "obj"
        /\ DOMAIN watchdirs_file.obj = WatchKeys(watch_dirs)
        /\ \A k \in WatchKeys(watch_dirs) :
             /\ watchdirs_file.obj[k].t = "list"
             /\ Range(watchdirs_file.obj[k].items) = Range(Glob(fs, k))
             /\ Len(watchdirs_file.obj[k].items) = Len(Glob(fs, k))

\* the snapshot read had the key of a directory no longer watched and a
\* child of DirA that is gone, and lacked children DirA has now
C18_Witness ==
    /\ ScanEnded
    /\ pc = "scanned"
    /\ IsSnapshot(scanned_file)
    /\ DirC \in DOMAIN scanned_file.obj
    /\ DirA \in DOMAIN scanned_file.obj
    /\ Range(scanned_file.obj[DirA].items) \ Range(Glob(fs, DirA)) /= {}
    /\ Cardinality(Range(Glob(fs, DirA)) \ Range(scanned_file.obj[DirA].items)) = 2
    /\ DirC \notin DOMAIN watchdirs_file.obj

\* the i-th target and the paths handed to rm for it
FilesOnly(i) == dirstoclean[i].type_to_del = "f"

\* C19: for a target with type_to_del = 'f' every path handed to rm is a
\* plain file, under every retention setting and ignore list, and when
\* cleaner has returned every directory found in the target is still there.
C19_FilesOnlySparesDirectories ==
    CleanRan =>
        /\ \A i \in 1..Len(last_clean.finals) :
             FilesOnly(i) =>
                \A p \in Range(last_clean.finals[i]) : Stat(last_clean.fs0, p).kind = "file"
        /\ \A i \in 1..Len(dirstoclean) :
             (FilesOnly(i) /\ pc = "cleaned" /\ fs[dirstoclean[i].path].exists) =>
                \A e \in Range(last_clean.fs0[dirstoclean[i].path].entries) :
                    e.kind = "dir" => e \in Range(fs[dirstoclean[i].path].entries)

\* under keep-1 the older of two files was handed to rm and a directory
\* older than both was not
C19_Witness ==
    /\ CleanRan
    /\ pc = "cleaned"
    /\ FilesOnly(1)
    /\ Item1.num_to_keep = 1
    /\ Item1.ignore = << >>
    /\ Cardinality(Selected1) = 1
    /\ \E e \in Children1 :
         /\ e.kind = "dir"
         /\ e.mtimes = << TOld, TNew >>
         /\ e \in Range(fs[Item1.path].entries)
    /\ \E e \in Children1 : e.kind = "file" /\ e.path \in Selected1 /\ AgeOf(e) = TCut

\* C20: for a target with num_to_keep > 0 the list handed to rm is the one
\* cleaner makes, from the same directory and clock, for remove_older unset
\* and for every number of days.
C20_KeepCountOverridesRemoveOlder ==
    (CleanRan /\ Item1.num_to_keep > 0) =>
        LET aged == add_stat_properties(last_clean.fs0, TypeFilter(last_clean.fs0, Item1),
                                        "age", TRUE, TRUE)
        IN  \A r \in ({ << >> } \cup { << d >> : d \in 1..MaxDays })
                        \ { Item1.remove_older } :
                LET with_r == [Item1 EXCEPT !.remove_older = r]
                    other  == AfterRetention(with_r, RetentionSlice(with_r, aged, now))
                IN  /\ other.raised = last_clean.raised
                    /\ ~ last_clean.raised => other.final = last_clean.finals[1]

\* with num_to_keep = 1 and remove_older = 1 a file modified within the last
\* day was handed to rm and a file older than a day was the one kept
C20_Witness ==
    /\ CleanRan
    /\ ~ last_clean.raised
    /\ Item1.num_to_keep = 1
    /\ Item1.remove_older = << 1 >>
    /\ Item1.ignore = << >>
    /\ \E e \in Aged1 : e.path \in Selected1 /\ AgeOf(e) = TNew
    /\ \A e \in Aged1 : e.path \in Selected1 \/ AgeOf(e) = TOld
    /\ Cardinality(Aged1) = 3

----------------------------------------------------------------------------
(* Properties of the targets of the clean report *)

\* the targets, in the order of the configuration, whose path was there when
\* line 366 measured the sizes
MeasuredBefore ==
    SelectSeq(TargetPaths(dirstoclean), LAMBDA p : last_clean.fs0[p].exists)

\* the paths of the entries of the last clean report, in their order
ReportedPaths ==
    [ i \in 1..Len(Last(report_file).positions) |-> Last(report_file).positions[i].path ]

\* C21: the per-target list of the clean report has an entry exactly for the
\* targets whose path was there at the measurement before the cleaning, in
\* the order of the configuration; a target whose path was missing then has
\* no entry at all, neither a size nor the '-' marker, also when its path is
\* there at the measurement after the cleaning, and the total is the sum over
\* the targets measured before only.
C21_ReportListsTargetsMeasuredBefore ==
    CleanReturned =>
        /\ ReportedPaths = MeasuredBefore
        /\ \A i \in 1..Len(dirstoclean) :
             ~ last_clean.fs0[dirstoclean[i].path].exists =>
                \A j \in 1..Len(ReportedPaths) : ReportedPaths[j] /= dirstoclean[i].path
        /\ Len(last_clean.item_sizes) = Len(MeasuredBefore)
        /\ last_clean.total =
             SumSeq([ i \in 1..Len(MeasuredBefore) |-> DeltaNow(i) ])

\* the second of two targets was missing before the cleaning and is there
\* after it; the report has the one entry of the first target, which shrank
C21_Witness ==
    /\ CleanReturned
    /\ Len(dirstoclean) = 2
    /\ ~ last_clean.fs0[dirstoclean[2].path].exists
    /\ fs[dirstoclean[2].path].exists
    /\ ReportedPaths = << dirstoclean[1].path >>
    /\ last_clean.total /= 0

----------------------------------------------------------------------------
(* Properties of directories without files *)

\* a first-level directory that holds no file at any depth
IsEmptyDir(e) == e.kind = "dir" /\ e.mtimes = << >>

\* the filesystem without the empty directories of the first target
WithoutEmptyDirs(f) ==
    [ d \in DOMAIN f |->
        [ f[d] EXCEPT !.entries =
            SelectSeq(f[d].entries,
                      LAMBDA e : d /= Item1.path \/ ~ IsEmptyDir(e)) ] ]

\* C22: under num_to_keep > 0 or a remove_older threshold a first-level
\* directory that holds no file at any depth is never handed to rm, and it
\* takes none of the num_to_keep places: the cleaning ends as, and hands to
\* rm what, it would if the directories without files were not there.
C22_EmptyDirIsNeverSelected ==
    (/\ CleanRan
     /\ Item1.num_to_keep > 0 \/ Item1.remove_older /= << >>
     /\ \E e \in Children1 : IsEmptyDir(e)) =>
        LET bare == SelectForItem(WithoutEmptyDirs(last_clean.fs0), Item1, now)
        IN  /\ \A e \in Children1 : IsEmptyDir(e) => e.path \notin Selected1
            /\ bare.raised = last_clean.raised
            /\ ~ last_clean.raised => bare.final = last_clean.finals[1]

\* with num_to_keep = 1 the target held an empty directory and two files:
\* the older file was handed to rm, the newer kept, the directory left alone
C22_Witness ==
    /\ CleanRan
    /\ ~ last_clean.raised
    /\ Item1.num_to_keep = 1
    /\ Item1.ignore = << >>
    /\ Cardinality(Children1) = 3
    /\ \E e \in Children1 : IsEmptyDir(e) /\ e.path \notin Selected1
    /\ \E x, y \in Aged1 :
         /\ AgeOf(x) < AgeOf(y)
         /\ Selected1 = { x.path }

====
